---- MODULE Spec2Model ----
(***************************************************************************)
(* Zoo record reconciliation (scripts/uk-zoo-scraper/utils/dedupe.ts):     *)
(* name normalisation, similarity matching, record merging and the         *)
(* deduplication loop, modelled as state machines.                         *)
(*                                                                         *)
(* Strings are sequences of one-character strings, so that the regular     *)
(* expressions of the source are modelled by what they do to characters.   *)
(* An optional value (T | undefined | null) is a sequence of length 0      *)
(* (undefined / null) or 1 (the value).                                    *)
(***************************************************************************)
EXTENDS Integers, Sequences, FiniteSets, TLC

VARIABLES
    rawZoos,    \* dedupeZoos: the argument list
    idx,        \* dedupeZoos: position of the for-of loop (next record)
    zooMap,     \* dedupeZoos: the Map, as its entries in insertion order
    status,     \* dedupeZoos: "running", "returned" or "threw"
    deduped,    \* dedupeZoos: the returned array (once returned)
    run,        \* number of the current call of dedupeZoos (1 or 2)
    firstRun,   \* what call 1 returned (history, once call 2 has begun)
    merged,     \* number of mergeZoo calls of the current call (history)
    target,     \* target[i]: place in zooMap of the entity that record i of
                \* the current call was folded into (history)
    nameIn,     \* normalizeZooName: the argument
    normOnce,   \* normalizeZooName(nameIn)
    normTwice,  \* normalizeZooName(normalizeZooName(nameIn))
    normZsl,    \* normalizeZooName("ZSL " + nameIn)
    normStraight, \* normalizeZooName(nameIn with straight apostrophes)
    normPc,     \* "start", "once", "twice", "zsl", "straight"
    mKey,       \* findSimilarZoo: argument key
    mKeys,      \* findSimilarZoo: argument existingKeys
    mResult,    \* findSimilarZoo: returned value
    mPc,        \* "start", "done"
    rankIn,     \* sortZoosByQuality: the argument zoos
    rankOnce,   \* sortZoosByQuality(rankIn)
    rankTwice,  \* sortZoosByQuality(sortZoosByQuality(rankIn))
    rankArg,    \* the array rankIn refers to, after the calls
    rankPc,     \* "start", "once", "twice"
    caseFirst,  \* localeCompare: which case the default locale puts first
    levA,       \* levenshteinDistance: argument a
    levB,       \* levenshteinDistance: argument b
    levOut,     \* levenshteinDistance(levA, levB)
    levBack,    \* levenshteinDistance(levB, levA)
    levPc,      \* "start", "done", "back"
    sourceOpt,  \* main: options.source
    allRawZoos, \* main: the array the scrapers' records are pushed to
    scraped,    \* main: what each scraper returned (history)
    pipePc      \* main: "wikipedia", "biaza", "google", "dedupe",
                \* "deduping", "done"

engineVars ==
    <<rawZoos, idx, zooMap, status, deduped, run, firstRun, merged, target>>
normVars == <<nameIn, normOnce, normTwice, normZsl, normStraight, normPc>>
matchVars == <<mKey, mKeys, mResult, mPc>>
rankVars == <<rankIn, rankOnce, rankTwice, rankArg, rankPc, caseFirst>>
levVars == <<levA, levB, levOut, levBack, levPc>>
pipeVars == <<sourceOpt, allRawZoos, scraped, pipePc>>
vars == <<rawZoos, idx, zooMap, status, deduped, run, firstRun, merged, target,
          nameIn, normOnce, normTwice, normZsl, normStraight, normPc,
          mKey, mKeys, mResult, mPc,
          rankIn, rankOnce, rankTwice, rankArg, rankPc, caseFirst,
          levA, levB, levOut, levBack, levPc,
          sourceOpt, allRawZoos, scraped, pipePc>>

----------------------------------------------------------------------------
(* Bounds *)

MaxPieces == 5     \* pieces concatenated into an argument of normalizeZooName
MaxRecords == 3    \* length of the list given to dedupeZoos
MaxKeys == 3       \* length of existingKeys given to findSimilarZoo
MaxZoos == 3       \* length of the list given to sortZoosByQuality
MaxScraped == 2    \* number of records one scraper returns
MaxLevLen == 3     \* length of an argument of levenshteinDistance

----------------------------------------------------------------------------
(* Optional values *)

Undefined == <<>>
Some(v) == <<v>>
IsDefined(o) == o # <<>>
Val(o) == o[1]

\* JavaScript truthiness of an optional string: undefined and "" are falsy.
TruthyStr(o) == IsDefined(o) /\ Val(o) # ""
\* JavaScript truthiness of an optional number: undefined and 0 are falsy.
TruthyNum(o) == IsDefined(o) /\ Val(o) # 0

Min2(a, b) == IF a <= b THEN a ELSE b

----------------------------------------------------------------------------
(* Characters and words *)

UpperChars == <<"A","B","C","D","E","F","G","H","I","J","K","L","M",
                "N","O","P","Q","R","S","T","U","V","W","X","Y","Z">>
LowerChars == <<"a","b","c","d","e","f","g","h","i","j","k","l","m",
                "n","o","p","q","r","s","t","u","v","w","x","y","z">>

\* \s of the regular expressions, and the characters String.trim removes
IsSpace(c) == c \in {" ", "\t"}

W_zoo == <<"z","o","o">>
W_safari == <<"s","a","f","a","r","i">>
W_park == <<"p","a","r","k">>
W_wildlife == <<"w","i","l","d","l","i","f","e">>
W_animal == <<"a","n","i","m","a","l">>
W_aquarium == <<"a","q","u","a","r","i","u","m">>
W_sea == <<"s","e","a">>
W_life == <<"l","i","f","e">>
W_centre == <<"c","e","n","t","r","e">>
W_centr == <<"c","e","n","t","r">>
W_house == <<"h","o","u","s","e">>
W_wild == <<"w","i","l","d">>
W_the == <<"t","h","e">>
W_zsl == <<"z","s","l">>

----------------------------------------------------------------------------
(* String primitives *)

LowerOf ==
    [ c \in { UpperChars[i] : i \in 1..Len(UpperChars) } |->
        LowerChars[CHOOSE i \in 1..Len(UpperChars) : UpperChars[i] = c] ]

LowerChar(c) == IF c \in DOMAIN LowerOf THEN LowerOf[c] ELSE c

\* String.prototype.toLowerCase
toLowerCase(s) == [i \in 1..Len(s) |-> LowerChar(s[i])]

\* .replace(/['']/g, "'"): both characters of the class are the straight
\* apostrophe U+0027, so every other character is left as it is.
UnifyApostrophes(s) ==
    [i \in 1..Len(s) |-> IF s[i] \in {"'"} THEN "'" ELSE s[i]]

\* .replace(/\s+/g, ' '): every maximal run of whitespace becomes one space.
RECURSIVE CollapseFrom(_, _)
CollapseFrom(s, i) ==
    IF i > Len(s) THEN <<>>
    ELSE IF IsSpace(s[i])
         THEN IF i > 1 /\ IsSpace(s[i-1])
              THEN CollapseFrom(s, i + 1)
              ELSE <<" ">> \o CollapseFrom(s, i + 1)
         ELSE <<s[i]>> \o CollapseFrom(s, i + 1)

CollapseSpaces(s) == CollapseFrom(s, 1)

EndsWith(s, w) ==
    Len(s) >= Len(w) /\ SubSeq(s, Len(s) - Len(w) + 1, Len(s)) = w

StartsWith(s, w) == Len(s) >= Len(w) /\ SubSeq(s, 1, Len(w)) = w

\* s without its trailing whitespace (a greedy \s* read backwards)
TrimRight(s) ==
    LET k == CHOOSE i \in 0..Len(s) :
                 /\ (i = 0 \/ ~IsSpace(s[i]))
                 /\ \A j \in (i+1)..Len(s) : IsSpace(s[j])
    IN SubSeq(s, 1, k)

\* s without its leading whitespace
TrimLeft(s) ==
    LET k == CHOOSE i \in 1..(Len(s)+1) :
                 /\ (i = Len(s) + 1 \/ ~IsSpace(s[i]))
                 /\ \A j \in 1..(i-1) : IsSpace(s[j])
    IN SubSeq(s, k, Len(s))

\* String.prototype.trim
trim(s) == TrimLeft(TrimRight(s))

\* What is left of s in front of a match of /\s*w1\s*w2...\s*wn$/, as an
\* optional value: Undefined when the pattern does not match.  The leftmost
\* match starts at the whitespace run in front of w1.
RECURSIVE TailMatch(_, _)
TailMatch(s, ws) ==
    IF ws = <<>> THEN Some(s)
    ELSE LET w == ws[Len(ws)]
         IN IF EndsWith(s, w)
            THEN TailMatch(TrimRight(SubSeq(s, 1, Len(s) - Len(w))),
                           SubSeq(ws, 1, Len(ws) - 1))
            ELSE Undefined

\* .replace(/\s*w1\s*w2...\s*wn$/i, '') on a lowercased string
StripSuffix(s, ws) ==
    LET m == TailMatch(s, ws) IN IF IsDefined(m) THEN Val(m) ELSE s

\* .replace(/\s*sea\s*life\s*centre?$/i, ''): the final e is optional
StripSeaLife(s) ==
    IF IsDefined(TailMatch(s, <<W_sea, W_life, W_centre>>))
    THEN Val(TailMatch(s, <<W_sea, W_life, W_centre>>))
    ELSE StripSuffix(s, <<W_sea, W_life, W_centr>>)

Occurs(s, w, h) == h + Len(w) - 1 <= Len(s) /\ SubSeq(s, h, h + Len(w) - 1) = w

\* .replace(/\s*w\s*/i, ' ') without the g flag: the first occurrence of w,
\* wherever it is (also inside a word), together with the whitespace around
\* it, becomes one space.
ReplaceFirst(s, w) ==
    IF \E h \in 1..Len(s) : Occurs(s, w, h)
    THEN LET h == CHOOSE x \in 1..Len(s) :
                      Occurs(s, w, x) /\ \A y \in 1..(x-1) : ~Occurs(s, w, y)
             before == TrimRight(SubSeq(s, 1, h - 1))
             after == TrimLeft(SubSeq(s, h + Len(w), Len(s)))
         IN before \o <<" ">> \o after
    ELSE s

\* .replace(/^w\s+/i, ''): w at the very start followed by whitespace
StripPrefix(s, w) ==
    IF StartsWith(s, w) /\ Len(s) > Len(w) /\ IsSpace(s[Len(w) + 1])
    THEN TrimLeft(SubSeq(s, Len(w) + 1, Len(s)))
    ELSE s

----------------------------------------------------------------------------
(* normalizeZooName *)

normalizeZooName(name) ==
    LET s1 == toLowerCase(name)
        s2 == UnifyApostrophes(s1)
        s3 == CollapseSpaces(s2)
        s4 == StripSuffix(s3, <<W_zoo>>)
        s5 == StripSuffix(s4, <<W_safari, W_park>>)
        s6 == StripSuffix(s5, <<W_wildlife, W_park>>)
        s7 == StripSuffix(s6, <<W_animal, W_park>>)
        s8 == StripSuffix(s7, <<W_aquarium>>)
        s9 == StripSeaLife(s8)
        s10 == ReplaceFirst(s9, W_house)
        s11 == ReplaceFirst(s10, W_wild)
        s12 == StripPrefix(s11, W_the)
        s13 == StripPrefix(s12, W_zsl)
        s14 == CollapseSpaces(s13)
    IN trim(s14)

----------------------------------------------------------------------------
(* Arguments of normalizeZooName: concatenations of a few pieces *)

Pieces ==
    { <<"X">>, <<" ">>, <<"Z","o","o">>, <<"T","h","e">>, <<"Z","S","L">>,
      <<"A","q","u","a","r","i","u","m">>, <<"H","o","u","s","e">> }

RECURSIVE Concats(_)
Concats(n) ==
    IF n = 0 THEN { <<>> }
    ELSE Concats(n - 1) \cup { s \o p : s \in Concats(n - 1), p \in Pieces }

\* the strings of at most n pieces
NameInputs(n) == Concats(n)

----------------------------------------------------------------------------
(* levenshteinDistance: the matrix is filled row by row; a row is kept as *)
(* the sequence matrix[i][0], ..., matrix[i][a.length].                    *)

\* A variant that looks at the diagonal cell only.
Min3Diagonal(x, y, z) == x

Min3(x, y, z) == Min2(x, Min2(y, z))

\* matrix[0][j] = j
FirstRow(a) == [j \in 1..(Len(a) + 1) |-> j - 1]

\* The inner loop over j for row i: cur holds matrix[i][0..Len(cur)-1] and
\* prev is row i-1.
RECURSIVE FillRow(_, _, _, _, _)
FillRow(a, b, i, prev, cur) ==
    LET j == Len(cur)
    IN IF j > Len(a) THEN cur
       ELSE FillRow(a, b, i, prev,
                Append(cur, IF b[i] = a[j]
                            THEN prev[j]
                            ELSE Min3(prev[j] + 1, cur[j] + 1, prev[j + 1] + 1)))

\* The outer loop over i; matrix[i] starts as [i].
RECURSIVE FillMatrix(_, _, _, _)
FillMatrix(a, b, i, prev) ==
    IF i > Len(b) THEN prev
    ELSE FillMatrix(a, b, i + 1, FillRow(a, b, i, prev, <<i>>))

levenshteinDistance(a, b) == FillMatrix(a, b, 1, FirstRow(a))[Len(a) + 1]

----------------------------------------------------------------------------
(* findSimilarZoo *)

Null == <<>>

\* String.prototype.includes
includes(s, w) == \E h \in 1..(Len(s) - Len(w) + 1) : Occurs(s, w, h)

\* s.split(' ')[0]: the characters in front of the first space
FirstWord(s) ==
    LET k == CHOOSE i \in 1..(Len(s) + 1) :
                 /\ (i = Len(s) + 1 \/ s[i] = " ")
                 /\ \A j \in 1..(i-1) : s[j] # " "
    IN SubSeq(s, 1, k - 1)

\* The body of the for-of loop from the i-th element of existingKeys on.
RECURSIVE FindSimilarFrom(_, _, _)
FindSimilarFrom(key, existingKeys, i) ==
    IF i > Len(existingKeys) THEN Null
    ELSE LET existing == existingKeys[i]
             shorter == IF Len(key) < Len(existing) THEN key ELSE existing
             longer == IF Len(key) < Len(existing) THEN existing ELSE key
             keyFirst == FirstWord(key)
             existingFirst == FirstWord(existing)
         IN IF key = existing
            THEN Some(existing)
            ELSE IF includes(longer, shorter) /\ Len(shorter) >= 8
            THEN Some(existing)
            ELSE IF /\ Len(key) < 15
                    /\ Len(existing) < 15
                    /\ levenshteinDistance(key, existing) <= 2
            THEN Some(existing)
            ELSE IF keyFirst = existingFirst /\ Len(keyFirst) > 4
            THEN Some(existing)
            ELSE FindSimilarFrom(key, existingKeys, i + 1)

\* A variant that looks for an exact match in the whole list first.
findSimilarZooExactFirst(key, existingKeys) ==
    IF \E i \in 1..Len(existingKeys) : existingKeys[i] = key
    THEN Some(key)
    ELSE FindSimilarFrom(key, existingKeys, 1)

\* A variant whose containment test has no length guard: when no key
\* matches, a key that contains the other one is returned.
findSimilarZooNoGuard(key, existingKeys) ==
    LET found == FindSimilarFrom(key, existingKeys, 1)
        Contains(i) == \/ includes(existingKeys[i], key)
                       \/ includes(key, existingKeys[i])
    IN IF found = Null /\ \E i \in 1..Len(existingKeys) : Contains(i)
       THEN Some(existingKeys[CHOOSE i \in 1..Len(existingKeys) :
                     Contains(i) /\ \A j \in 1..(i-1) : ~Contains(j)])
       ELSE found

\* A variant that knows the exact match only.
findSimilarZooExactOnly(key, existingKeys) ==
    IF \E i \in 1..Len(existingKeys) : existingKeys[i] = key
    THEN Some(key)
    ELSE Null

findSimilarZoo(key, existingKeys) == FindSimilarFrom(key, existingKeys, 1)

----------------------------------------------------------------------------
(* mergeZoo and the Map *)

Range(f) == { f[i] : i \in DOMAIN f }

\* A variant that pushes the source without looking for it.
MergeSourcesAlways(sources, source) == Append(sources, source)

\* A variant that overwrites the sources with the record's source.
MergeSourcesReplace(sources, source) == <<source>>

\* if (!existing.sources.includes(raw.source)) existing.sources.push(...)
MergeSources(sources, source) ==
    IF source \in Range(sources) THEN sources ELSE Append(sources, source)

\* if (!existing.f && raw.f) existing.f = raw.f, for a string field
\* A variant in which a later value replaces an earlier one.
FillStrLatest(old, new) == IF TruthyStr(new) THEN new ELSE old

FillStr(old, new) == IF ~TruthyStr(old) /\ TruthyStr(new) THEN new ELSE old

\* if (!existing.f && raw.f) existing.f = raw.f, for a number field
FillNum(old, new) == IF ~TruthyNum(old) /\ TruthyNum(new) THEN new ELSE old

\* if (raw.name.length > existing.name.length) existing.name = raw.name
\* A variant that also takes a name of the same length.
PreferNameOrEqual(old, new) == IF Len(Val(new)) >= Len(Val(old)) THEN new ELSE old

PreferName(old, new) == IF Len(Val(new)) > Len(Val(old)) THEN new ELSE old

\* The entity after mergeZoo(existing, raw)
mergeZoo(existing, raw) ==
    [ name |-> PreferName(existing.name, raw.name),
      city |-> FillStr(existing.city, raw.city),
      county |-> FillStr(existing.county, raw.county),
      country |-> existing.country,
      website |-> FillStr(existing.website, raw.website),
      sources |-> MergeSources(existing.sources, raw.source),
      wikiUrl |-> FillStr(existing.wikiUrl, raw.wikiUrl),
      latitude |-> FillNum(existing.latitude, raw.latitude),
      longitude |-> FillNum(existing.longitude, raw.longitude) ]

\* A variant that stores the name in lower case.
NewZooLowerName(raw) ==
    [ name |-> IF IsDefined(raw.name) THEN Some(toLowerCase(Val(raw.name)))
               ELSE raw.name,
      city |-> raw.city,
      county |-> raw.county,
      country |-> "United Kingdom",
      website |-> raw.website,
      sources |-> <<raw.source>>,
      wikiUrl |-> raw.wikiUrl,
      latitude |-> raw.latitude,
      longitude |-> raw.longitude ]

\* The object literal of zooMap.set(key, {...})
NewZoo(raw) ==
    [ name |-> raw.name,
      city |-> raw.city,
      county |-> raw.county,
      country |-> "United Kingdom",
      website |-> raw.website,
      sources |-> <<raw.source>>,
      wikiUrl |-> raw.wikiUrl,
      latitude |-> raw.latitude,
      longitude |-> raw.longitude ]

\* new Map<string, Zoo>()
NewMap == <<>>

\* Array.from(map.keys()), Array.from(map.values())
MapKeys(map) == [i \in 1..Len(map) |-> map[i].key]
MapValues(map) == [i \in 1..Len(map) |-> map[i].zoo]

\* map.has(key)
MapHas(map, key) == \E i \in 1..Len(map) : map[i].key = key

MapIndex(map, key) == CHOOSE i \in 1..Len(map) : map[i].key = key

\* map.set(key, zoo): a new key goes to the end of the insertion order, an
\* existing key keeps its place.
MapSet(map, key, zoo) ==
    IF MapHas(map, key)
    THEN [map EXCEPT ![MapIndex(map, key)].zoo = zoo]
    ELSE Append(map, [key |-> key, zoo |-> zoo])

\* A variant that merges the record and adds it as a new zoo as well.
MergeIntoAndAdd(map, key, raw) ==
    Append([map EXCEPT ![MapIndex(map, key)].zoo = mergeZoo(@, raw)],
           [key |-> normalizeZooName(Val(raw.name)), zoo |-> NewZoo(raw)])

\* A variant that merges into a copy of the zoo and keeps both.
MergeIntoCopy(map, key, raw) ==
    Append(map, [key |-> key, zoo |-> mergeZoo(map[MapIndex(map, key)].zoo, raw)])

\* mergeZoo(map.get(key)!, raw): the entity is mutated in place
MergeInto(map, key, raw) ==
    [map EXCEPT ![MapIndex(map, key)].zoo = mergeZoo(@, raw)]

\* if (similarKey): null and the empty string are falsy
TruthyKey(o) == IsDefined(o) /\ Val(o) # <<>>

----------------------------------------------------------------------------
(* The records given to dedupeZoos *)

N_Empty == <<>>
N_Oz == <<"O","z">>
N_LondonZoo == <<"L","o","n","d","o","n"," ","Z","o","o">>
N_ZslLondonZoo == <<"Z","S","L"," ","L","o","n","d","o","n"," ","Z","o","o">>
N_LondonWetland == <<"L","o","n","d","o","n"," ","W","e","t","l","a","n","d">>

\* raw.name: a string, or missing
Names == { Undefined, Some(N_Empty), Some(N_Oz), Some(N_LondonZoo),
           Some(N_ZslLondonZoo), Some(N_LondonWetland) }

\* type ZooSource
Sources == { "wikipedia", "biaza", "google" }

RawZoo(name, source, city, county, website, wikiUrl, latitude, longitude) ==
    [ name |-> name, source |-> source, city |-> city, county |-> county,
      website |-> website, wikiUrl |-> wikiUrl,
      latitude |-> latitude, longitude |-> longitude ]

\* The optional fields of a record: none; empty strings and zero
\* coordinates; two sets of values.
NoData(name, source) ==
    RawZoo(name, source, Undefined, Undefined, Undefined, Undefined,
           Undefined, Undefined)
ZeroData(name, source) ==
    RawZoo(name, source, Some(""), Some(""), Some(""), Undefined,
           Some(0), Some(0))
DataA(name, source) ==
    RawZoo(name, source, Some("London"), Some("Greater London"),
           Some("https://zsl.org"), Some("/wiki/London_Zoo"),
           Some(51), Some(-1))
DataB(name, source) ==
    RawZoo(name, source, Some("Camden"), Undefined,
           Some("https://londonzoo.org"), Undefined,
           Some(52), Some(-2))

Records ==
    { NoData(n, "wikipedia") : n \in Names }
    \cup { ZeroData(Some(N_LondonZoo), "biaza") }
    \cup { DataA(Some(N_LondonZoo), s) : s \in {"biaza", "google"} }
    \cup { DataB(Some(N_LondonZoo), "google") }

\* the lists of at most n records
RecordLists(n) == UNION { [1..k -> Records] : k \in 0..n }

----------------------------------------------------------------------------
(* dedupeZoos: one action for each way an iteration of the loop can go *)

EngineIdle ==
    /\ rawZoos = <<>> /\ idx = 1 /\ zooMap = NewMap /\ status = "idle"
    /\ deduped = <<>> /\ run = 0 /\ firstRun = <<>> /\ merged = 0
    /\ target = <<>>
NormIdle ==
    /\ nameIn = <<>> /\ normOnce = <<>> /\ normTwice = <<>> /\ normZsl = <<>>
    /\ normStraight = <<>> /\ normPc = "idle"
MatchIdle ==
    /\ mKey = <<>> /\ mKeys = <<>> /\ mResult = Null /\ mPc = "idle"
RankIdle ==
    /\ rankIn = <<>> /\ rankOnce = <<>> /\ rankTwice = <<>> /\ rankArg = <<>>
    /\ rankPc = "idle" /\ caseFirst = "lower"
LevIdle ==
    /\ levA = <<>> /\ levB = <<>> /\ levOut = 0 /\ levBack = 0 /\ levPc = "idle"
PipeIdle ==
    /\ sourceOpt = <<>> /\ allRawZoos = <<>> /\ scraped = <<>>
    /\ pipePc = "idle"

\* dedupeZoos(rawZoos) has been called and has made its Map.
Init ==
    /\ rawZoos \in RecordLists(MaxRecords)
    /\ idx = 1
    /\ zooMap = NewMap
    /\ status = "running"
    /\ deduped = <<>>
    /\ run = 1
    /\ firstRun = <<>>
    /\ merged = 0
    /\ target = <<>>
    /\ NormIdle
    /\ MatchIdle
    /\ RankIdle
    /\ LevIdle
    /\ PipeIdle

\* The body of the for-of loop for one record whose name is a string: the Map
\* after the iteration.
ProcessRecord(map, raw) ==
    LET key == normalizeZooName(Val(raw.name))
        similarKey == findSimilarZoo(key, MapKeys(map))
    IN IF MapHas(map, key)
       THEN MergeInto(map, key, raw)
       ELSE IF TruthyKey(similarKey)
            THEN MergeInto(map, Val(similarKey), raw)
            ELSE MapSet(map, key, NewZoo(raw))

InLoop == status = "running" /\ idx <= Len(rawZoos)

\* normalizeZooName(raw.name) with raw.name undefined: undefined.toLowerCase()
\* throws a TypeError, which nothing in dedupeZoos catches.
ThrowOnMissingName ==
    /\ InLoop
    /\ ~IsDefined(rawZoos[idx].name)
    /\ status' = "threw"
    /\ UNCHANGED <<rawZoos, idx, zooMap, deduped, run, firstRun, merged, target>>
    /\ UNCHANGED <<normVars, matchVars, rankVars, levVars, pipeVars>>

\* zooMap.has(key): merge with the existing entry
MergeExact ==
    /\ InLoop
    /\ IsDefined(rawZoos[idx].name)
    /\ LET raw == rawZoos[idx]
           key == normalizeZooName(Val(raw.name))
       IN /\ MapHas(zooMap, key)
          /\ zooMap' = MergeInto(zooMap, key, raw)
          /\ target' = Append(target, MapIndex(zooMap, key))
    /\ idx' = idx + 1
    /\ merged' = merged + 1
    /\ UNCHANGED <<rawZoos, status, deduped, run, firstRun>>
    /\ UNCHANGED <<normVars, matchVars, rankVars, levVars, pipeVars>>

\* findSimilarZoo found a (truthy) key: merge with that entry
MergeSimilar ==
    /\ InLoop
    /\ IsDefined(rawZoos[idx].name)
    /\ LET raw == rawZoos[idx]
           key == normalizeZooName(Val(raw.name))
           similarKey == findSimilarZoo(key, MapKeys(zooMap))
       IN /\ ~MapHas(zooMap, key)
          /\ TruthyKey(similarKey)
          /\ zooMap' = MergeInto(zooMap, Val(similarKey), raw)
          /\ target' = Append(target, MapIndex(zooMap, Val(similarKey)))
    /\ idx' = idx + 1
    /\ merged' = merged + 1
    /\ UNCHANGED <<rawZoos, status, deduped, run, firstRun>>
    /\ UNCHANGED <<normVars, matchVars, rankVars, levVars, pipeVars>>

\* no (truthy) similar key: new zoo
CreateZoo ==
    /\ InLoop
    /\ IsDefined(rawZoos[idx].name)
    /\ LET raw == rawZoos[idx]
           key == normalizeZooName(Val(raw.name))
           similarKey == findSimilarZoo(key, MapKeys(zooMap))
       IN /\ ~MapHas(zooMap, key)
          /\ ~TruthyKey(similarKey)
          /\ zooMap' = MapSet(zooMap, key, NewZoo(raw))
          /\ target' = Append(target, Len(zooMap) + 1)
    /\ idx' = idx + 1
    /\ UNCHANGED <<rawZoos, status, deduped, run, firstRun, merged>>
    /\ UNCHANGED <<normVars, matchVars, rankVars, levVars, pipeVars>>

\* the loop is over: return Array.from(zooMap.values())
Return ==
    /\ status = "running"
    /\ idx > Len(rawZoos)
    /\ deduped' = MapValues(zooMap)
    /\ status' = "returned"
    /\ UNCHANGED <<rawZoos, idx, zooMap, run, firstRun, merged, target>>
    /\ UNCHANGED <<normVars, matchVars, rankVars, levVars, pipeVars>>

\* A variant in which the Map outlives the call (a module-level Map).
CallAgainStale ==
    /\ status = "returned"
    /\ run = 1
    /\ firstRun' = deduped
    /\ run' = 2
    /\ idx' = 1
    /\ merged' = 0
    /\ target' = <<>>
    /\ deduped' = <<>>
    /\ status' = "running"
    /\ UNCHANGED <<rawZoos, zooMap>>
    /\ UNCHANGED <<normVars, matchVars, rankVars, levVars, pipeVars>>

\* dedupeZoos is called again with the same list: a new Map is made.
CallAgain ==
    /\ status = "returned"
    /\ run = 1
    /\ firstRun' = deduped
    /\ run' = 2
    /\ zooMap' = NewMap
    /\ idx' = 1
    /\ merged' = 0
    /\ target' = <<>>
    /\ deduped' = <<>>
    /\ status' = "running"
    /\ UNCHANGED rawZoos
    /\ UNCHANGED <<normVars, matchVars, rankVars, levVars, pipeVars>>

Next ==
    \/ ThrowOnMissingName
    \/ MergeExact
    \/ MergeSimilar
    \/ CreateZoo
    \/ Return
    \/ CallAgain

Spec == Init /\ [][Next]_vars

----------------------------------------------------------------------------
(* dedupeZoos on records that differ in their names' lengths and in which  *)
(* optional fields they supply                                             *)

N_DraytonManor == <<"D","r","a","y","t","o","n"," ","M","a","n","o","r">>
N_DraytonManorPark ==
    <<"D","r","a","y","t","o","n"," ","M","a","n","o","r"," ","P","a","r","k">>
N_ManorWildlifePark ==
    <<"M","a","n","o","r"," ","W","i","l","d","l","i","f","e"," ",
      "P","a","r","k">>
N_ManorPark == <<"M","a","n","o","r"," ","P","a","r","k">>
N_LondonZooCaps == <<"L","O","N","D","O","N"," ","Z","O","O">>

\* a record with an empty city, a latitude and no longitude
LatOnly(name, source) ==
    RawZoo(name, source, Some(""), Undefined, Undefined, Undefined,
           Some(53), Undefined)

MergeRecords ==
    { NoData(Undefined, "wikipedia"),
      NoData(Some(N_DraytonManor), "wikipedia"),
      NoData(Some(N_ManorWildlifePark), "biaza"),
      NoData(Some(N_DraytonManorPark), "google"),
      NoData(Some(N_ManorPark), "biaza"),
      NoData(Some(N_ZslLondonZoo), "wikipedia"),
      DataA(Some(N_LondonZoo), "google"),
      DataB(Some(N_LondonZooCaps), "biaza"),
      LatOnly(Some(N_LondonZoo), "biaza") }

\* the lists of at most n of these records
MergeLists(n) == UNION { [1..k -> MergeRecords] : k \in 0..n }

InitMerge ==
    /\ rawZoos \in MergeLists(MaxRecords)
    /\ idx = 1
    /\ zooMap = NewMap
    /\ status = "running"
    /\ deduped = <<>>
    /\ run = 1
    /\ firstRun = <<>>
    /\ merged = 0
    /\ target = <<>>
    /\ NormIdle
    /\ MatchIdle
    /\ RankIdle
    /\ LevIdle
    /\ PipeIdle

SpecMerge == InitMerge /\ [][Next]_vars

----------------------------------------------------------------------------
(* normalizeZooName applied once and twice *)

InitNormalize ==
    /\ nameIn \in NameInputs(MaxPieces)
    /\ normOnce = <<>>
    /\ normTwice = <<>>
    /\ normZsl = <<>>
    /\ normStraight = <<>>
    /\ normPc = "start"
    /\ EngineIdle
    /\ MatchIdle
    /\ RankIdle
    /\ LevIdle
    /\ PipeIdle

NormalizeOnce ==
    /\ normPc = "start"
    /\ normOnce' = normalizeZooName(nameIn)
    /\ normPc' = "once"
    /\ UNCHANGED <<nameIn, normTwice, normZsl, normStraight>>
    /\ UNCHANGED <<engineVars, matchVars, rankVars, levVars, pipeVars>>

NormalizeTwice ==
    /\ normPc = "once"
    /\ normTwice' = normalizeZooName(normOnce)
    /\ normPc' = "twice"
    /\ UNCHANGED <<nameIn, normOnce, normZsl, normStraight>>
    /\ UNCHANGED <<engineVars, matchVars, rankVars, levVars, pipeVars>>

\* normalizeZooName('ZSL ' + nameIn)
NormalizeWithZsl ==
    /\ normPc = "twice"
    /\ normZsl' = normalizeZooName(<<"Z","S","L"," ">> \o nameIn)
    /\ normPc' = "zsl"
    /\ UNCHANGED <<nameIn, normOnce, normTwice, normStraight>>
    /\ UNCHANGED <<engineVars, matchVars, rankVars, levVars, pipeVars>>

\* Names with apostrophes: U+2018 and U+2019 are characters of their own,
\* written here by their code points.
LeftCurly == "U+2018"
RightCurly == "U+2019"

ApostrophePieces ==
    { <<"X">>, <<"s">>, <<" ">>, <<"'">>, <<LeftCurly>>, <<RightCurly>> }

RECURSIVE ApostropheInputs(_)
ApostropheInputs(n) ==
    IF n = 0 THEN { <<>> }
    ELSE ApostropheInputs(n - 1)
             \cup { s \o p : s \in ApostropheInputs(n - 1), p \in ApostrophePieces }

\* The same name typed with straight apostrophes
Straighten(s) ==
    [i \in 1..Len(s) |-> IF s[i] \in {LeftCurly, RightCurly} THEN "'" ELSE s[i]]

InitApostrophe ==
    /\ nameIn \in ApostropheInputs(MaxPieces)
    /\ normOnce = <<>>
    /\ normTwice = <<>>
    /\ normZsl = <<>>
    /\ normStraight = <<>>
    /\ normPc = "start"
    /\ EngineIdle
    /\ MatchIdle
    /\ RankIdle
    /\ LevIdle
    /\ PipeIdle

\* normalizeZooName of the name typed with straight apostrophes
NormalizeStraightened ==
    /\ normPc = "once"
    /\ normStraight' = normalizeZooName(Straighten(nameIn))
    /\ normPc' = "straight"
    /\ UNCHANGED <<nameIn, normOnce, normTwice, normZsl>>
    /\ UNCHANGED <<engineVars, matchVars, rankVars, levVars, pipeVars>>

NextApostrophe == NormalizeOnce \/ NormalizeStraightened

SpecApostrophe == InitApostrophe /\ [][NextApostrophe]_vars

NextNormalize == NormalizeOnce \/ NormalizeTwice \/ NormalizeWithZsl

SpecNormalize == InitNormalize /\ [][NextNormalize]_vars

----------------------------------------------------------------------------
(* findSimilarZoo applied to a key and a list of keys *)

K_london == <<"l","o","n","d","o","n">>
K_londen == <<"l","o","n","d","e","n">>
K_londonWetland == <<"l","o","n","d","o","n"," ","w","e","t","l","a","n","d">>
K_blackpool == <<"b","l","a","c","k","p","o","o","l">>
K_blackpoolTower ==
    <<"t","o","w","e","r"," ","o","f"," ","b","l","a","c","k","p","o","o","l">>
K_oz == <<"o","z">>
K_manor == <<"m","a","n","o","r">>
K_draytonManor == <<"d","r","a","y","t","o","n"," ","m","a","n","o","r">>

MatchKeys == { <<>>, K_oz, K_london, K_londen, K_londonWetland, K_blackpool,
               K_blackpoolTower, K_manor, K_draytonManor }

\* the lists of at most n keys
KeyLists(n) == UNION { [1..k -> MatchKeys] : k \in 0..n }

InitMatcher ==
    /\ mKey \in MatchKeys
    /\ mKeys \in KeyLists(MaxKeys)
    /\ mResult = Null
    /\ mPc = "start"
    /\ EngineIdle
    /\ NormIdle
    /\ RankIdle
    /\ LevIdle
    /\ PipeIdle

FindSimilar ==
    /\ mPc = "start"
    /\ mResult' = findSimilarZoo(mKey, mKeys)
    /\ mPc' = "done"
    /\ UNCHANGED <<mKey, mKeys, engineVars, normVars, rankVars, levVars, pipeVars>>

NextMatcher == FindSimilar

SpecMatcher == InitMatcher /\ [][NextMatcher]_vars

----------------------------------------------------------------------------
(* sortZoosByQuality *)

\* Collation weight of a character at the first (alphabetical) level: space
\* and punctuation come before the letters, the case of a letter is ignored.
LetterRank ==
    [ c \in { LowerChars[i] : i \in 1..26 } \cup { UpperChars[i] : i \in 1..26 } |->
        CHOOSE i \in 1..26 : LowerChars[i] = c \/ UpperChars[i] = c ]

CharRank(c) == IF c \in DOMAIN LetterRank THEN LetterRank[c] ELSE 0

RECURSIVE PrimaryCompare(_, _, _)
PrimaryCompare(a, b, i) ==
    IF i > Len(a) /\ i > Len(b) THEN 0
    ELSE IF i > Len(a) THEN -1
    ELSE IF i > Len(b) THEN 1
    ELSE IF CharRank(a[i]) < CharRank(b[i]) THEN -1
    ELSE IF CharRank(a[i]) > CharRank(b[i]) THEN 1
    ELSE PrimaryCompare(a, b, i + 1)

\* Strings that are alphabetically equal are ordered by the case of the first
\* character in which they differ.
CaseCompare(a, b) ==
    LET diff == { i \in 1..Len(a) : a[i] # b[i] }
    IN IF diff = {} THEN 0
       ELSE LET i == CHOOSE k \in diff : \A l \in diff : k <= l
                aLower == a[i] = LowerChar(a[i])
            IN IF aLower = (caseFirst = "lower") THEN -1 ELSE 1

\* a.localeCompare(b) in the default locale: the alphabetical order decides,
\* then the case; 0 only for the same string.  Whether lower or upper case
\* comes first depends on the locale of the runtime.
localeCompare(a, b) ==
    LET primary == PrimaryCompare(a, b, 1)
    IN IF primary # 0 THEN primary ELSE CaseCompare(a, b)

\* A variant of the comparator without the two website tests.
CompareZoosNoWebsite(a, b) ==
    IF Len(b.sources) # Len(a.sources) THEN Len(b.sources) - Len(a.sources)
    ELSE localeCompare(Val(a.name), Val(b.name))

\* The comparator (a, b) => ... given to sort
CompareZoos(a, b) ==
    IF Len(b.sources) # Len(a.sources) THEN Len(b.sources) - Len(a.sources)
    ELSE IF TruthyStr(a.website) /\ ~TruthyStr(b.website) THEN -1
    ELSE IF ~TruthyStr(a.website) /\ TruthyStr(b.website) THEN 1
    ELSE localeCompare(Val(a.name), Val(b.name))

\* A variant that puts a zoo before the zoos it compares equal to.
InsertBeforeEqual(sorted, z) ==
    LET k == Cardinality({ i \in 1..Len(sorted) : CompareZoos(sorted[i], z) < 0 })
    IN SubSeq(sorted, 1, k) \o <<z>> \o SubSeq(sorted, k + 1, Len(sorted))

\* Array.prototype.sort is stable: a zoo goes after every zoo of the sorted
\* part that is not after it in the order.
InsertStable(sorted, z) ==
    LET k == Cardinality({ i \in 1..Len(sorted) : CompareZoos(sorted[i], z) <= 0 })
    IN SubSeq(sorted, 1, k) \o <<z>> \o SubSeq(sorted, k + 1, Len(sorted))

RECURSIVE SortFrom(_, _, _)
SortFrom(zoos, i, sorted) ==
    IF i > Len(zoos) THEN sorted
    ELSE SortFrom(zoos, i + 1, InsertStable(sorted, zoos[i]))

\* [...zoos].sort(comparator)
sortZoosByQuality(zoos) == SortFrom(zoos, 1, <<>>)

\* A variant that sorts the argument itself: zoos.sort(comparator).
SortCallInPlace(zoos) ==
    [ arg |-> sortZoosByQuality(zoos), result |-> sortZoosByQuality(zoos) ]

\* A call of sortZoosByQuality: the caller's array after the call, and the
\* array returned. The sort works on the copy [...zoos].
SortCall(zoos) == [ arg |-> zoos, result |-> sortZoosByQuality(zoos) ]

N_OzCaps == <<"O","Z">>
N_Ab == <<"A","b">>
N_aC == <<"a","C">>

RankZoo(name, sources, website) ==
    [ name |-> Some(name),
      city |-> Undefined,
      county |-> Undefined,
      country |-> "United Kingdom",
      website |-> website,
      sources |-> sources,
      wikiUrl |-> Undefined,
      latitude |-> Undefined,
      longitude |-> Undefined ]

Zoos ==
    { RankZoo(N_Oz, <<"wikipedia">>, Undefined),
      RankZoo(N_Oz, <<"biaza">>, Undefined),
      RankZoo(N_OzCaps, <<"wikipedia">>, Undefined),
      RankZoo(N_Oz, <<"wikipedia">>, Some("https://zsl.org")),
      RankZoo(N_Oz, <<"wikipedia">>, Some("")),
      RankZoo(N_OzCaps, <<"google">>, Some("https://londonzoo.org")),
      RankZoo(N_LondonZoo, <<"wikipedia", "biaza">>, Undefined),
      RankZoo(N_Ab, <<"wikipedia">>, Undefined),
      RankZoo(N_aC, <<"wikipedia">>, Undefined) }

ZooLists(n) == UNION { [1..k -> Zoos] : k \in 0..n }

\* sortZoosByQuality(rankIn) is about to be called.
InitRank ==
    /\ rankIn \in ZooLists(MaxZoos)
    /\ rankArg = rankIn
    /\ caseFirst \in {"lower", "upper"}
    /\ rankOnce = <<>>
    /\ rankTwice = <<>>
    /\ rankPc = "start"
    /\ EngineIdle
    /\ NormIdle
    /\ MatchIdle
    /\ LevIdle
    /\ PipeIdle

\* the copy [...zoos] is sorted, the argument is left as it is
SortOnce ==
    /\ rankPc = "start"
    /\ rankOnce' = SortCall(rankArg).result
    /\ rankArg' = SortCall(rankArg).arg
    /\ rankPc' = "once"
    /\ UNCHANGED <<rankIn, rankTwice, caseFirst>>
    /\ UNCHANGED <<engineVars, normVars, matchVars, levVars, pipeVars>>

SortTwice ==
    /\ rankPc = "once"
    /\ rankTwice' = sortZoosByQuality(rankOnce)
    /\ rankPc' = "twice"
    /\ UNCHANGED <<rankIn, rankArg, rankOnce, caseFirst>>
    /\ UNCHANGED <<engineVars, normVars, matchVars, levVars, pipeVars>>

NextRank == SortOnce \/ SortTwice

SpecRank == InitRank /\ [][NextRank]_vars

----------------------------------------------------------------------------
(* main: the three scrapers, dedupeZoos, sortZoosByQuality *)

\* searchForZoos returns records with a name, a city and a website only
GoogleZoo(name, city, website) ==
    RawZoo(Some(name), "google", city, Undefined, website, Undefined,
           Undefined, Undefined)

\* Records a scraper can return
ScrapeRecords(source) ==
    IF source = "wikipedia"
    THEN { NoData(Some(N_ZslLondonZoo), "wikipedia"),
           NoData(Some(N_Oz), "wikipedia") }
    ELSE IF source = "biaza"
    THEN { DataB(Some(N_LondonZooCaps), "biaza"),
           NoData(Some(N_DraytonManor), "biaza") }
    ELSE { GoogleZoo(N_LondonZoo, Some("London"), Some("https://zsl.org")),
           GoogleZoo(N_DraytonManorPark, Undefined, Undefined) }

ScrapeLists(source, n) ==
    UNION { [1..k -> ScrapeRecords(source)] : k \in 0..n }

\* searchForZoos leaves out the zoos whose lower-cased name it was given
NotExisting(zoos, existingZoos) ==
    \A i \in 1..Len(zoos) : \A j \in 1..Len(existingZoos) :
        toLowerCase(Val(zoos[i].name)) # toLowerCase(Val(existingZoos[j].name))

Pending == [outcome |-> "pending", zoos |-> <<>>]

\* main has parsed its options and made the empty array allRawZoos.
InitPipeline ==
    /\ sourceOpt \in {Undefined} \cup { Some(s) : s \in Sources }
    /\ allRawZoos = <<>>
    /\ scraped = [s \in Sources |-> Pending]
    /\ pipePc = "wikipedia"
    /\ EngineIdle
    /\ NormIdle
    /\ MatchIdle
    /\ RankIdle
    /\ LevIdle

\* if (!options.source || options.source === source)
Selected(source) == ~IsDefined(sourceOpt) \/ sourceOpt = Some(source)

\* the scraper returns and its records are pushed to allRawZoos
Scrape(source, next) ==
    /\ pipePc = source
    /\ Selected(source)
    /\ \E zoos \in ScrapeLists(source, MaxScraped) :
           /\ source = "google" => NotExisting(zoos, allRawZoos)
           /\ allRawZoos' = allRawZoos \o zoos
           /\ scraped' = [scraped EXCEPT ![source] =
                              [outcome |-> "returned", zoos |-> zoos]]
    /\ pipePc' = next
    /\ UNCHANGED <<sourceOpt, engineVars, normVars, matchVars, rankVars, levVars>>

\* A variant in which a scraper's exception ends the run.
ScrapeFailsAborts(source, next) ==
    /\ pipePc = source
    /\ Selected(source)
    /\ scraped' = [scraped EXCEPT ![source] = [outcome |-> "threw", zoos |-> <<>>]]
    /\ pipePc' = "aborted"
    /\ UNCHANGED <<sourceOpt, allRawZoos>>
    /\ UNCHANGED <<engineVars, normVars, matchVars, rankVars, levVars>>

\* the scraper throws: the catch block logs the error and main goes on
ScrapeFails(source, next) ==
    /\ pipePc = source
    /\ Selected(source)
    /\ scraped' = [scraped EXCEPT ![source] = [outcome |-> "threw", zoos |-> <<>>]]
    /\ pipePc' = next
    /\ UNCHANGED <<sourceOpt, allRawZoos>>
    /\ UNCHANGED <<engineVars, normVars, matchVars, rankVars, levVars>>

\* options.source names another source: the block is not entered
SkipSource(source, next) ==
    /\ pipePc = source
    /\ ~Selected(source)
    /\ scraped' = [scraped EXCEPT ![source] = [outcome |-> "skipped", zoos |-> <<>>]]
    /\ pipePc' = next
    /\ UNCHANGED <<sourceOpt, allRawZoos>>
    /\ UNCHANGED <<engineVars, normVars, matchVars, rankVars, levVars>>

ScrapeWikipedia == Scrape("wikipedia", "biaza")
WikipediaFails == ScrapeFails("wikipedia", "biaza")
SkipWikipedia == SkipSource("wikipedia", "biaza")
ScrapeBiaza == Scrape("biaza", "google")
BiazaFails == ScrapeFails("biaza", "google")
SkipBiaza == SkipSource("biaza", "google")
SearchForZoos == Scrape("google", "dedupe")
SearchFails == ScrapeFails("google", "dedupe")
SkipGoogle == SkipSource("google", "dedupe")

\* let zoos = dedupeZoos(allRawZoos, verbose)
CallDedupe ==
    /\ pipePc = "dedupe"
    /\ rawZoos' = allRawZoos
    /\ idx' = 1
    /\ zooMap' = NewMap
    /\ status' = "running"
    /\ deduped' = <<>>
    /\ run' = 1
    /\ merged' = 0
    /\ target' = <<>>
    /\ pipePc' = "deduping"
    /\ UNCHANGED <<firstRun, sourceOpt, allRawZoos, scraped>>
    /\ UNCHANGED <<normVars, matchVars, rankVars, levVars>>

\* zoos = sortZoosByQuality(zoos)
SortResult ==
    /\ pipePc = "deduping"
    /\ status = "returned"
    /\ rankIn' = deduped
    /\ rankArg' = deduped
    /\ rankOnce' = sortZoosByQuality(deduped)
    /\ rankPc' = "once"
    /\ pipePc' = "done"
    /\ UNCHANGED <<rankTwice, caseFirst, sourceOpt, allRawZoos, scraped>>
    /\ UNCHANGED <<engineVars, normVars, matchVars, levVars>>

NextPipeline ==
    \/ ScrapeWikipedia
    \/ WikipediaFails
    \/ SkipWikipedia
    \/ ScrapeBiaza
    \/ BiazaFails
    \/ SkipBiaza
    \/ SearchForZoos
    \/ SearchFails
    \/ SkipGoogle
    \/ CallDedupe
    \/ MergeExact
    \/ MergeSimilar
    \/ CreateZoo
    \/ Return
    \/ SortResult

SpecPipeline == InitPipeline /\ [][NextPipeline]_vars

-----------------------------------------------------------------------------
(* levenshteinDistance applied to two strings, in both orders *)

LevChars == {"a", "b", "c"}

\* the strings of at most n characters
LevStrings(n) == UNION { [1..k -> LevChars] : k \in 0..n }

InitLev ==
    /\ levA \in LevStrings(MaxLevLen)
    /\ levB \in LevStrings(MaxLevLen)
    /\ levOut = 0
    /\ levBack = 0
    /\ levPc = "start"
    /\ EngineIdle
    /\ NormIdle
    /\ MatchIdle
    /\ RankIdle
    /\ PipeIdle

\* levenshteinDistance(a, b)
LevForward ==
    /\ levPc = "start"
    /\ levOut' = levenshteinDistance(levA, levB)
    /\ levPc' = "done"
    /\ UNCHANGED <<levA, levB, levBack>>
    /\ UNCHANGED <<engineVars, normVars, matchVars, rankVars, pipeVars>>

\* levenshteinDistance(b, a)
LevBackward ==
    /\ levPc = "done"
    /\ levBack' = levenshteinDistance(levB, levA)
    /\ levPc' = "back"
    /\ UNCHANGED <<levA, levB, levOut>>
    /\ UNCHANGED <<engineVars, normVars, matchVars, rankVars, pipeVars>>

NextLev == LevForward \/ LevBackward

SpecLev == InitLev /\ [][NextLev]_vars

----------------------------------------------------------------------------
(* Properties *)

NoDuplicates(s) == \A i, j \in DOMAIN s : i # j => s[i] # s[j]

\* What dedupeZoos makes of a list whose names are all strings
RECURSIVE DedupeFrom(_, _, _)
DedupeFrom(list, i, map) ==
    IF i > Len(list) THEN map
    ELSE DedupeFrom(list, i + 1, ProcessRecord(map, list[i]))

HasEmptyName(raw) == raw.name = Some(<<>>)

WithoutEmptyNames(list) == SelectSeq(list, LAMBDA raw : ~HasEmptyName(raw))

\* C1: normalizeZooName is idempotent: normalising a normalised name gives
\* the same string.
C1_NormalizeIdempotent == normPc = "twice" => normTwice = normOnce

\* C2: records with an empty name are skipped: what dedupeZoos returns is
\* what it returns on the list without its empty-name records.
C2_EmptyNamesSkipped ==
    status = "returned" =>
        deduped = MapValues(DedupeFrom(WithoutEmptyNames(rawZoos), 1, NewMap))

\* C3: every canonical entity has a non-empty name, in every state of a run
\* and in the output.
C3_NamesNonEmpty ==
    /\ \A i \in 1..Len(zooMap) : Val(zooMap[i].zoo.name) # <<>>
    /\ \A i \in 1..Len(deduped) : Val(deduped[i].name) # <<>>

\* C4: mergeZoo never loses data: a populated city, county, website,
\* wikiUrl, latitude, longitude (a number, 0 included) and the country of an
\* entity are the same after every step of a run.
KeepsStr(old, new) == TruthyStr(old) => new = old
KeepsNum(old, new) == IsDefined(old) => new = old
KeepsData(old, new) ==
    /\ KeepsStr(old.city, new.city)
    /\ KeepsStr(old.county, new.county)
    /\ KeepsStr(old.website, new.website)
    /\ KeepsStr(old.wikiUrl, new.wikiUrl)
    /\ KeepsNum(old.latitude, new.latitude)
    /\ KeepsNum(old.longitude, new.longitude)
    /\ new.country = old.country
C4_MergeKeepsData ==
    [][run' = run =>
          \A i \in 1..Len(zooMap) :
              i <= Len(zooMap') /\ KeepsData(zooMap[i].zoo, zooMap'[i].zoo)]_vars

\* C5: dedupeZoos returns at most as many entities as it was given records,
\* and as many exactly when no record was merged into an existing entity.
C5_CountNeverGrows ==
    status = "returned" =>
        /\ Len(deduped) <= Len(rawZoos)
        /\ (Len(deduped) = Len(rawZoos) <=> merged = 0)

C5_Witness ==
    /\ status = "returned"
    /\ Len(rawZoos) = 3
    /\ merged = 1
    /\ Len(deduped) = 2

\* C6: two calls of dedupeZoos on the same list return the same entities in
\* the same order, with the same field values and the same set of sources,
\* and every call starts from an empty Map.
SameEntity(a, b) ==
    /\ a.name = b.name /\ a.city = b.city /\ a.county = b.county
    /\ a.country = b.country /\ a.website = b.website
    /\ a.wikiUrl = b.wikiUrl /\ a.latitude = b.latitude
    /\ a.longitude = b.longitude
    /\ Range(a.sources) = Range(b.sources)
C7_NeverThrows == status # "threw"

\* C8: the sources of every canonical entity are non-empty and hold no
\* source twice.
C8_SourcesDistinct ==
    /\ \A i \in 1..Len(zooMap) :
           /\ zooMap[i].zoo.sources # <<>>
           /\ NoDuplicates(zooMap[i].zoo.sources)
    /\ \A i \in 1..Len(deduped) :
           /\ deduped[i].sources # <<>>
           /\ NoDuplicates(deduped[i].sources)

\* two records of one source have been folded into one entity
C8_Witness ==
    /\ status = "running"
    /\ idx = 3
    /\ rawZoos[1].source = rawZoos[2].source
    /\ Len(zooMap) = 1
    /\ merged = 1

\* C9: the sources of an entity only grow: after every step of a run they
\* are a superset of what they were, and at least as many.
C9_SourcesGrow ==
    [][run' = run =>
          \A i \in 1..Len(zooMap) :
              /\ i <= Len(zooMap')
              /\ Range(zooMap[i].zoo.sources)
                     \subseteq Range(zooMap'[i].zoo.sources)
              /\ Len(zooMap'[i].zoo.sources) >= Len(zooMap[i].zoo.sources)]_vars

\* an entity that three sources have been merged into
C9_Witness ==
    \E i \in 1..Len(zooMap) :
        /\ Len(zooMap[i].zoo.sources) = 3
        /\ merged = 2

\* C10: findSimilarZoo returns the first key of the list that matches by
\* one of the four rules, and null when none does.
ExactRule(k, e) == k = e
ContainmentRule(k, e) ==
    \/ Len(k) <= Len(e) /\ includes(e, k) /\ Len(k) >= 8
    \/ Len(e) <= Len(k) /\ includes(k, e) /\ Len(e) >= 8
EditDistanceRule(k, e) ==
    Len(k) < 15 /\ Len(e) < 15 /\ levenshteinDistance(k, e) <= 2
FirstWordRule(k, e) == FirstWord(k) = FirstWord(e) /\ Len(FirstWord(k)) > 4
Matches(k, e) ==
    ExactRule(k, e) \/ ContainmentRule(k, e) \/ EditDistanceRule(k, e)
        \/ FirstWordRule(k, e)
C10_FirstMatchWins ==
    mPc = "done" =>
        IF \E i \in 1..Len(mKeys) : Matches(mKey, mKeys[i])
        THEN \E i \in 1..Len(mKeys) :
                 /\ Matches(mKey, mKeys[i])
                 /\ \A j \in 1..(i-1) : ~Matches(mKey, mKeys[j])
                 /\ mResult = Some(mKeys[i])
        ELSE mResult = Null

\* an earlier key matches by edit distance and a later key is the key itself
C10_Witness ==
    /\ mPc = "done"
    /\ Len(mKeys) >= 2
    /\ mKeys[1] # mKey
    /\ EditDistanceRule(mKey, mKeys[1])
    /\ mKeys[2] = mKey
    /\ mResult = Some(mKeys[1])

\* C11: two keys match exactly when one of the four rules holds: they are
\* equal; the longer contains the shorter and the shorter has at least 8
\* characters; both have fewer than 15 characters and their edit distance is
\* at most 2; their first words are equal and longer than 4 characters.
C11_MatchRules ==
    (mPc = "done" /\ Len(mKeys) = 1) =>
        /\ mResult # Null <=> Matches(mKey, mKeys[1])
        /\ mResult # Null => mResult = Some(mKeys[1])

\* "manor" against "drayton manor": contained, but too short to match
C11_Witness ==
    /\ mPc = "done"
    /\ mKey = K_manor
    /\ mKeys = <<K_draytonManor>>
    /\ mResult = Null

\* C12: a record whose key is not in the Map and matches no key of the Map
\* creates exactly one zoo, at the end of the Map's order and under that key:
\* its name is the record's name as given, its sources are the record's
\* source alone, its other fields are the record's; every zoo already in the
\* Map stays as it was.
C12_CreatesOneEntity ==
    [][ LET raw == rawZoos[idx]
            key == normalizeZooName(Val(raw.name))
        IN (/\ InLoop
            /\ IsDefined(raw.name)
            /\ \A i \in 1..Len(zooMap) :
                   zooMap[i].key # key /\ ~Matches(key, zooMap[i].key))
           => zooMap' = Append(zooMap,
                  [ key |-> key,
                    zoo |-> [ name |-> raw.name,
                              city |-> raw.city,
                              county |-> raw.county,
                              country |-> "United Kingdom",
                              website |-> raw.website,
                              sources |-> <<raw.source>>,
                              wikiUrl |-> raw.wikiUrl,
                              latitude |-> raw.latitude,
                              longitude |-> raw.longitude ] ])
      ]_vars

\* "Manor Wildlife Park" has just been created after "Drayton Manor"
C12_Witness ==
    /\ status = "running"
    /\ idx = 3
    /\ target = <<1, 2>>
    /\ MapKeys(zooMap) = <<K_draytonManor, K_manor>>
    /\ zooMap[2].zoo.name = Some(N_ManorWildlifePark)
    /\ zooMap[2].zoo.sources = <<"biaza">>

\* The records folded so far into the j-th zoo of the Map
Folded(j) == { i \in 1..Len(target) : target[i] = j }

NameLen(i) == Len(Val(rawZoos[i].name))

\* C13: the name of a zoo is the longest name among the records folded into
\* it, and among equally long names the one of the earliest record.
C13_LongestNameWins ==
    \A j \in 1..Len(zooMap) :
        Folded(j) # {} =>
            \E i \in Folded(j) :
                /\ zooMap[j].zoo.name = rawZoos[i].name
                /\ \A k \in Folded(j) : NameLen(k) <= NameLen(i)
                /\ \A k \in Folded(j) : k < i => NameLen(k) < NameLen(i)

\* two different names of the same, greatest length were folded into one zoo
C13_Witness ==
    /\ status = "returned"
    /\ \E j \in 1..Len(zooMap) : \E a, b \in Folded(j) :
           /\ a < b
           /\ rawZoos[a].name # rawZoos[b].name
           /\ NameLen(a) = NameLen(b)
           /\ \A k \in Folded(j) : NameLen(k) <= NameLen(a)
           /\ zooMap[j].zoo.name = rawZoos[a].name

StrFields == {"city", "county", "website", "wikiUrl"}

\* The folded records of the j-th zoo that carry a non-empty value of field f
Suppliers(j, f) == { i \in Folded(j) : TruthyStr(rawZoos[i][f]) }

Earliest(S) == CHOOSE i \in S : \A k \in S : i <= k

\* C14: each of city, county, website and wikiUrl of a zoo is the value of the
\* earliest folded record that carries a non-empty value for it, and the zoo
\* has no value (undefined or the empty string) exactly when no folded record
\* carries one.
C14_FirstSupplierWins ==
    \A j \in 1..Len(zooMap) : \A f \in StrFields :
        Folded(j) # {} =>
            IF Suppliers(j, f) = {}
            THEN ~TruthyStr(zooMap[j].zoo[f])
            ELSE zooMap[j].zoo[f] = rawZoos[Earliest(Suppliers(j, f))][f]

\* two folded records carry different websites and the earlier one is kept
C14_Witness ==
    /\ status = "returned"
    /\ \E j \in 1..Len(zooMap) : \E a, b \in Suppliers(j, "website") :
           /\ a < b
           /\ rawZoos[a].website # rawZoos[b].website
           /\ zooMap[j].zoo.website = rawZoos[a].website
           /\ Suppliers(j, "county") # {}
           /\ Earliest(Folded(j)) \notin Suppliers(j, "county")

\* The folded records of the j-th zoo that carry a latitude or a longitude
CoordSuppliers(j) ==
    { i \in Folded(j) : IsDefined(rawZoos[i].latitude)
                        \/ IsDefined(rawZoos[i].longitude) }

\* C15: the latitude and longitude of a zoo are either both absent or both
\* those of the first folded record that carries coordinates; a latitude of
\* one record is never combined with the longitude of another.
C15_CoordinatesFromOneRecord ==
    \A j \in 1..Len(zooMap) :
        Folded(j) # {} =>
            \/ /\ ~IsDefined(zooMap[j].zoo.latitude)
               /\ ~IsDefined(zooMap[j].zoo.longitude)
            \/ /\ CoordSuppliers(j) # {}
               /\ LET first == rawZoos[Earliest(CoordSuppliers(j))]
                  IN /\ zooMap[j].zoo.latitude = first.latitude
                     /\ zooMap[j].zoo.longitude = first.longitude

\* x is alphabetically not after y, the case of the letters ignored
RECURSIVE AlphaLeq(_, _)
AlphaLeq(x, y) ==
    IF x = <<>> THEN TRUE
    ELSE IF y = <<>> THEN FALSE
    ELSE LET cx == LowerChar(Head(x))
             cy == LowerChar(Head(y))
             Place(c) == IF c = " " THEN 0
                         ELSE CHOOSE i \in 1..26 : LowerChars[i] = c
         IN IF cx = cy THEN AlphaLeq(Tail(x), Tail(y))
            ELSE Place(cx) < Place(cy)

HasWebsite(z) == IsDefined(z.website) /\ Val(z.website) # ""

\* C16: in the output of sortZoosByQuality, a zoo placed before another has
\* at least as many sources; with equally many, it has a website or the
\* other has none; with the same website presence as well, its name is
\* alphabetically not after the other's, the case of the letters ignored.
C16_RankOrder ==
    rankPc # "start" =>
        \A i, j \in 1..Len(rankOnce) :
            i < j =>
                LET x == rankOnce[i]
                    y == rankOnce[j]
                IN /\ Len(x.sources) >= Len(y.sources)
                   /\ Len(x.sources) = Len(y.sources) =>
                          (HasWebsite(x) \/ ~HasWebsite(y))
                   /\ (/\ Len(x.sources) = Len(y.sources)
                       /\ HasWebsite(x) = HasWebsite(y)) =>
                          AlphaLeq(Val(x.name), Val(y.name))

\* a list given in the opposite order on each of the three levels
C16_Witness ==
    /\ rankPc = "once"
    /\ rankIn = << RankZoo(N_Oz, <<"wikipedia">>, Undefined),
                   RankZoo(N_OzCaps, <<"google">>, Some("https://londonzoo.org")),
                   RankZoo(N_LondonZoo, <<"wikipedia", "biaza">>, Undefined) >>
    /\ rankOnce = << rankIn[3], rankIn[2], rankIn[1] >>

\* C17: sorting a sorted list again gives the same sequence.
C17_RankIdempotent ==
    rankPc = "twice" => rankTwice = rankOnce

\* the first call changed the order and left two different zoos that the
\* comparator does not tell apart next to each other
C17_Witness ==
    /\ rankPc = "twice"
    /\ rankOnce # rankIn
    /\ \E i \in 1..(Len(rankOnce) - 1) :
           /\ rankOnce[i] # rankOnce[i + 1]
           /\ CompareZoos(rankOnce[i], rankOnce[i + 1]) = 0

\* Same number of sources, same website presence, same name but for the case
EqualRank(x, y) ==
    /\ Len(x.sources) = Len(y.sources)
    /\ HasWebsite(x) = HasWebsite(y)
    /\ toLowerCase(Val(x.name)) = toLowerCase(Val(y.name))

\* C18: zoos of equal rank (same number of sources, same website presence,
\* names equal but for the case) are in the output in the order they have in
\* the input.
C18_RankStable ==
    rankPc # "start" =>
        \A z \in Range(rankIn) :
            SelectSeq(rankOnce, LAMBDA e : EqualRank(e, z))
                = SelectSeq(rankIn, LAMBDA e : EqualRank(e, z))

\* C19: a leading "ZSL " does not change the key: for every name N,
\* normalizeZooName("ZSL " + N) is normalizeZooName(N), so that records named
\* N and "ZSL " + N become one zoo.
C19_ZslPrefixIgnored ==
    normPc = "zsl" => normZsl = normOnce

\* The last word of a name: the characters after the last white space of the
\* trimmed name
LastWord(s) ==
    LET r == trim(s)
        k == CHOOSE i \in 0..Len(r) :
                 /\ (i = 0 \/ IsSpace(r[i]))
                 /\ \A j \in (i+1)..Len(r) : ~IsSpace(r[j])
    IN SubSeq(r, k + 1, Len(r))

\* The last word ends with the letters of a one-word descriptor without being
\* the descriptor
EndsLikeSuffix(w) ==
    \E d \in {W_zoo, W_aquarium} : EndsWith(w, d) /\ Len(w) > Len(d)

\* C20: a descriptor is removed only as a whole last word: a name whose last
\* word merely ends with the letters of a descriptor keeps that word in its
\* key.
C20_SuffixWholeToken ==
    LET w == LastWord(toLowerCase(nameIn))
    IN (/\ normPc # "start"
        /\ EndsLikeSuffix(w)
        /\ ~includes(w, <<"h","o","u","s","e">>)
        /\ ~includes(w, <<"w","i","l","d">>))
       => EndsWith(normOnce, w)

\* s[i..j] is a whitespace-delimited word of s
IsWordAt(s, i, j) ==
    /\ i <= j
    /\ \A k \in i..j : ~IsSpace(s[k])
    /\ (i = 1 \/ IsSpace(s[i - 1]))
    /\ (j = Len(s) \/ IsSpace(s[j + 1]))

HasWord(s, w) ==
    \E i \in 1..Len(s) : \E j \in i..Len(s) :
        IsWordAt(s, i, j) /\ SubSeq(s, i, j) = w

\* C21: "house" and "wild" are removed only as standalone words: no such
\* word is left in the key, and a word of the name that merely contains
\* "house" or "wild" is a word of the key, unchanged.
C21_HouseWildTokens ==
    normPc # "start" =>
        LET low == toLowerCase(nameIn)
        IN /\ \A t \in {W_house, W_wild} : ~HasWord(normOnce, t)
           /\ \A t \in {W_house, W_wild} :
                  \A i \in 1..Len(low) : \A j \in i..Len(low) :
                      LET w == SubSeq(low, i, j)
                      IN (/\ IsWordAt(low, i, j)
                          /\ includes(w, t)
                          /\ w # t
                          /\ ~EndsLikeSuffix(w))
                         => HasWord(normOnce, w)

\* C22: names that differ only in the style of their apostrophes (U+2018 or
\* U+2019 for ') have the same key.
C22_ApostrophesUnified ==
    normPc = "straight" => normStraight = normOnce

\* C23: no two different keys of the Map match each other by any of the four
\* rules, in any state of a run.
C23_KeysPairwiseUnmatched ==
    \A i, j \in 1..Len(zooMap) :
        i # j => ~Matches(zooMap[i].key, zooMap[j].key)

\* The lists that hold the records of a list in another order
Reorderings(list) ==
    { [i \in 1..Len(list) |-> list[p[i]]] :
          p \in { q \in [1..Len(list) -> 1..Len(list)] :
                      \A i, j \in 1..Len(list) : i # j => q[i] # q[j] } }

\* "Drayton Manor Park" matches both "Drayton Manor" and "Manor Park", which
\* do not match each other.
DraytonFirst ==
    << NoData(Some(N_DraytonManor), "wikipedia"),
       NoData(Some(N_ManorPark), "biaza"),
       NoData(Some(N_DraytonManorPark), "google") >>

\* C24: the result depends on the order of the records: the list DraytonFirst
\* gives two zoos, and the same records in another order give a Map with
\* another number of zoos.
C24_OrderSensitive ==
    (status = "returned" /\ rawZoos = DraytonFirst) =>
        /\ Len(deduped) = 2
        /\ \E other \in Reorderings(rawZoos) :
               Len(DedupeFrom(other, 1, NewMap)) = 1

C24_Witness ==
    /\ status = "returned"
    /\ rawZoos = DraytonFirst
    /\ target = <<1, 2, 1>>
    /\ ~Matches(zooMap[1].key, zooMap[2].key)

\* The steps main has still to take, at most
StepsLeft ==
    CASE pipePc = "wikipedia" -> 3 * MaxScraped + 7
      [] pipePc = "biaza" -> 3 * MaxScraped + 6
      [] pipePc = "google" -> 3 * MaxScraped + 5
      [] pipePc = "dedupe" -> 3 * MaxScraped + 4
      [] pipePc = "deduping" ->
             IF status = "running" THEN Len(rawZoos) - idx + 3 ELSE 1
      [] OTHER -> 0

\* C25: the engine is given the wikipedia records, then the biaza records,
\* then the google records, each as its scraper returned them; a scraper that
\* throws adds no record, the others' records are still joined in that order
\* and reconciled; the run is never aborted and every step brings it nearer
\* to its end.
C25_FixedConcatenation ==
    /\ [](pipePc \in {"dedupe", "deduping", "done"} =>
            /\ allRawZoos = scraped["wikipedia"].zoos \o scraped["biaza"].zoos
                                \o scraped["google"].zoos
            /\ \A s \in Sources : \A i \in 1..Len(scraped[s].zoos) :
                   scraped[s].zoos[i].source = s)
    /\ [](pipePc \in {"deduping", "done"} => rawZoos = allRawZoos)
    /\ [](pipePc = "done" => status = "returned" /\ Len(target) = Len(allRawZoos))
    /\ [](/\ pipePc \in {"wikipedia", "biaza", "google", "dedupe", "deduping", "done"}
          /\ status \in {"idle", "running", "returned"}
          /\ InLoop => IsDefined(rawZoos[idx].name))
    /\ [][StepsLeft' < StepsLeft]_vars

\* biaza threw, the other two returned records, and the run is over
C25_Witness ==
    /\ pipePc = "done"
    /\ scraped["biaza"].outcome = "threw"
    /\ scraped["wikipedia"].outcome = "returned"
    /\ scraped["google"].outcome = "returned"
    /\ Len(scraped["wikipedia"].zoos) = 2
    /\ Len(scraped["google"].zoos) = 1
    /\ Len(rawZoos) = 3
    /\ rawZoos[3].source = "google"
    /\ Len(deduped) >= 1

\* C26: for every key of the Map, findSimilarZoo given that key and the keys
\* of the Map finds the key itself (and dedupeZoos takes the result as a
\* match), so the test zooMap.has(key) changes nothing.
C26_ShortcutRedundant ==
    \A j \in 1..Len(zooMap) :
        LET found == findSimilarZoo(zooMap[j].key, MapKeys(zooMap))
        IN found = Some(zooMap[j].key) /\ TruthyKey(found)

\* C27: records with the same name go into the same zoo, and no two zoos of
\* the result have the same name.
C27_NamesUnique ==
    /\ \A a, b \in 1..Len(target) :
           rawZoos[a].name = rawZoos[b].name => target[a] = target[b]
    /\ status = "returned" =>
           \A i, j \in 1..Len(deduped) :
               i # j => deduped[i].name # deduped[j].name

\* a name came twice, with a record of another zoo in between
C27_Witness ==
    /\ status = "returned"
    /\ Len(deduped) = 2
    /\ target = <<1, 2, 1>>
    /\ rawZoos[1].name = rawZoos[3].name
    /\ rawZoos[1].source # rawZoos[3].source

SourceTags(S) == { rawZoos[i].source : i \in S }

\* C28: every record of the input is folded into exactly one zoo, the sources
\* of a zoo are exactly the source tags of the records folded into it, and
\* when the run has ended the sources of all zoos together are the source
\* tags of the input.
C28_ProvenanceExact ==
    /\ \A i \in 1..Len(target) : target[i] \in 1..Len(zooMap)
    /\ \A j \in 1..Len(zooMap) :
           Range(zooMap[j].zoo.sources) = SourceTags(Folded(j))
    /\ status # "running" =>
           /\ Len(target) = Len(rawZoos)
           /\ UNION { Range(deduped[j].sources) : j \in 1..Len(deduped) }
                  = SourceTags(1..Len(rawZoos))

Count(s, z) == Cardinality({ i \in 1..Len(s) : s[i] = z })

\* C29: sortZoosByQuality leaves its argument as it was, and the list it
\* returns is a permutation of the argument: the same zoos, each as often as
\* in the argument, with every field as it was.
C29_SortFrame ==
    rankPc \in {"once", "twice"} =>
        /\ rankArg = rankIn
        /\ Len(rankOnce) = Len(rankIn)
        /\ \A z \in Range(rankIn) \cup Range(rankOnce) :
               Count(rankOnce, z) = Count(rankIn, z)

\* a list that holds a zoo twice and is not in rank order
C29_Witness ==
    /\ rankPc = "once"
    /\ Len(rankIn) = 3
    /\ rankOnce # rankIn
    /\ \E i, j \in 1..Len(rankIn) : i < j /\ rankIn[i] = rankIn[j]

Least(S) == CHOOSE x \in S : \A y \in S : x <= y

\* The least number of insertions, deletions and substitutions of one
\* character that turn a into b.
RECURSIVE EditDistance(_, _)
EditDistance(a, b) ==
    IF a = <<>> THEN Len(b)
    ELSE IF b = <<>> THEN Len(a)
    ELSE Least({ EditDistance(Tail(a), Tail(b)) + (IF Head(a) = Head(b) THEN 0 ELSE 1),
                 EditDistance(Tail(a), b) + 1,
                 EditDistance(a, Tail(b)) + 1 })

\* C30: levenshteinDistance(a, b) is the edit distance of a and b; it is the
\* same in both orders, it is 0 exactly when a = b, and it is the length of
\* the other string when one string is empty.
C30_EditDistance ==
    /\ levPc \in {"done", "back"} =>
           /\ levOut = EditDistance(levA, levB)
           /\ (levOut = 0) <=> (levA = levB)
           /\ levA = <<>> => levOut = Len(levB)
           /\ levB = <<>> => levOut = Len(levA)
    /\ levPc = "back" => levBack = levOut

\* two strings of different lengths that need a substitution and an insertion
C30_Witness ==
    /\ levPc = "back"
    /\ levA = <<"a", "b">>
    /\ levB = <<"b", "c", "b">>
    /\ levOut = 2
====
